---- MODULE Spec2Model ----
(***************************************************************************)
(* A model of torch_rl/trpo.py: the GAE advantage estimator, the conjugate *)
(* gradient solver, the backtracking line search and the trpo_update       *)
(* orchestrator that sequences them.                                       *)
(*                                                                         *)
(* Tensors of floats are modelled by exact extended rationals: a value is  *)
(* a pair <<n, d>>, in lowest terms with d > 0, or one of the three        *)
(* special values of IEEE arithmetic, NaN = <<0,0>>, +inf = <<1,0>> and    *)
(* -inf = <<-1,0>>.  Indices are 1-based (Python index i is i+1 here).     *)
(***************************************************************************)
EXTENDS Integers, Sequences, FiniteSets, TLC

VARIABLES
    pc,              \* position of the running call
    caller,          \* which function the harness called: its name
    \* ---- estimate_advantage
    values,          \* value_net(states), one estimate per state
    rewards,         \* rewards tensor
    masks,           \* masks tensor
    nActions,        \* actions.size(0)
    gamma,
    tau,
    returns,         \* output buffer, torch.Tensor(actions.size(0),1)
    deltas,          \* scratch buffer
    advantages,      \* output buffer
    written,         \* the positions of the buffers the recurrence assigned
    gae_i,           \* loop index i (0 when the loop is over)
    prev_return,
    prev_value,
    prev_advantage,
    \* ---- conjugate_gradient
    cg_H,            \* the matrix behind the callable Hv
    cg_b,
    cg_N,
    cg_x,
    cg_r,
    cg_p,
    cg_i,            \* iterations of the for loop started so far
    \* ---- backtrack_line_search
    model_params,    \* the flat parameter vector held by the model (policy)
    f,               \* the loss callable, as the map of the points evaluated so far
    grad_f,
    ls_x,
    ls_p,
    alpha_0,
    c,
    max,
    m,
    alpha,
    initial_loss,
    ls_j,            \* attempts made so far
    evals,           \* candidate evaluations made so far (calls of f in the loop)
    candidate_params,
    ls_result,       \* the returned pair <<success, params>>
    \* ---- trpo_update
    backtrack_coeff, \* policy.backtrack_coeff
    trpo_advantages, \* the local "advantages" of trpo_update, after normalization
    trpo_returns,    \* the local "returns" of trpo_update
    full_step,
    old_params,
    success,
    new_params,
    trpo_result      \* the value trpo_update returns

gaeVars  == <<values, rewards, masks, nActions, gamma, tau, returns, deltas,
              advantages, written, gae_i, prev_return, prev_value, prev_advantage>>
cgVars   == <<cg_H, cg_b, cg_N, cg_x, cg_r, cg_p, cg_i>>
lsVars   == <<model_params, f, grad_f, ls_x, ls_p, alpha_0, c, max, m, alpha,
              initial_loss, ls_j, evals, candidate_params, ls_result>>
trpoVars == <<backtrack_coeff, trpo_advantages, trpo_returns, full_step,
              old_params, success, new_params, trpo_result>>
vars     == <<pc, caller, gaeVars, cgVars, lsVars, trpoVars>>

(***************************************************************************)
(* Bounds of the model.                                                    *)
(***************************************************************************)
MaxT == 2          \* longest trajectory field
MaxAttempts == 3   \* largest max of the line search
MaxIter == 3       \* largest iteration cap N of the conjugate gradient

(***************************************************************************)
(* Extended rational arithmetic (the float operations of the tensors).     *)
(***************************************************************************)
Abs(n) == IF n < 0 THEN -n ELSE n
Sign(n) == IF n < 0 THEN -1 ELSE IF n > 0 THEN 1 ELSE 0

RECURSIVE GCD(_, _)
GCD(a, b) == IF b = 0 THEN a ELSE GCD(b, a % b)

Norm(n, d) ==
    IF d = 0 THEN <<Sign(n), 0>>
    ELSE LET g == GCD(Abs(n), Abs(d))
         IN  <<Sign(d) * Sign(n) * (Abs(n) \div g), Abs(d) \div g>>

Zero == <<0, 1>>
One  == <<1, 1>>
NaN  == <<0, 0>>
Rat(n, d) == Norm(n, d)

IsNaN(a)    == a[2] = 0 /\ a[1] = 0

RNeg(a) == <<-a[1], a[2]>>
RAdd(a, b) ==
    IF IsNaN(a) \/ IsNaN(b) THEN NaN
    ELSE IF a[2] = 0 /\ b[2] = 0 THEN (IF a[1] = b[1] THEN a ELSE NaN)
    ELSE IF a[2] = 0 THEN a
    ELSE IF b[2] = 0 THEN b
    ELSE LET g == GCD(a[2], b[2])
         IN  Norm(a[1] * (b[2] \div g) + b[1] * (a[2] \div g), (a[2] \div g) * b[2])
RSub(a, b) == RAdd(a, RNeg(b))
RMul(a, b) == Norm(a[1] * b[1], a[2] * b[2])
RDiv(a, b) ==
    IF b[1] < 0 THEN Norm(-(a[1] * b[2]), a[2] * (-b[1]))
    ELSE Norm(a[1] * b[2], a[2] * b[1])
\* a > b as floats compare: false when either side is NaN
RGt(a, b) ==
    IF IsNaN(a) \/ IsNaN(b) THEN FALSE
    ELSE IF a[2] = 0 /\ b[2] = 0 THEN a[1] > b[1]
    ELSE RAdd(a, RNeg(b))[1] > 0
RLt(a, b) == RGt(b, a)

\* vectors: sequences of values
VAdd(u, v)   == [k \in 1..Len(u) |-> RAdd(u[k], v[k])]
VSub(u, v)   == [k \in 1..Len(u) |-> RSub(u[k], v[k])]
VScale(s, v) == [k \in 1..Len(v) |-> RMul(s, v[k])]
VNeg(v)      == [k \in 1..Len(v) |-> RNeg(v[k])]
RECURSIVE SumTo(_, _)
SumTo(v, n) == IF n = 0 THEN Zero ELSE RAdd(SumTo(v, n - 1), v[n])
Sum(v)      == SumTo(v, Len(v))
Dot(u, v)   == Sum([k \in 1..Len(u) |-> RMul(u[k], v[k])])
IsZeroVec(v) == \A k \in 1..Len(v) : v[k] = Zero

\* all sequences over S of the lengths in L
SeqsOf(S, L) == UNION {[1..n -> S] : n \in L}

(***************************************************************************)
(* estimate_advantage                                                      *)
(***************************************************************************)
Bits     == {Zero, One}
Gammas   == {Rat(1, 2), Rat(2, 3)}
Taus     == {Rat(1, 2), One}
Garbage  == {Zero, Rat(7, 1)}      \* what an uninitialised cell may hold
Unset    == <<0, -1>>              \* a cell of a fresh buffer, not yet read

\* GaeStep with the mask left out of the return's bootstrap term
GaeStep_NoMask(pr, pv, pa, reward, value, mask, g, t) ==
    LET ret   == RAdd(reward, RMul(g, pr))
        delta == RSub(RAdd(reward, RMul(RMul(g, pv), mask)), value)
        adv   == RAdd(delta, RMul(RMul(RMul(g, t), pa), mask))
    IN  [ret |-> ret, delta |-> delta, adv |-> adv,
         prev_return |-> ret, prev_value |-> value, prev_advantage |-> adv]

\* GaeStep with the return bootstrapped from the previous value estimate
GaeStep_ValueInReturn(pr, pv, pa, reward, value, mask, g, t) ==
    LET ret   == RAdd(reward, RMul(RMul(g, pv), mask))
        delta == RSub(RAdd(reward, RMul(RMul(g, pv), mask)), value)
        adv   == RAdd(delta, RMul(RMul(RMul(g, t), pa), mask))
    IN  [ret |-> ret, delta |-> delta, adv |-> adv,
         prev_return |-> ret, prev_value |-> value, prev_advantage |-> adv]

\* lines 45-51: one iteration of the backward recurrence at index i
GaeStep(pr, pv, pa, reward, value, mask, g, t) ==
    LET ret   == RAdd(reward, RMul(RMul(g, pr), mask))
        delta == RSub(RAdd(reward, RMul(RMul(g, pv), mask)), value)
        adv   == RAdd(delta, RMul(RMul(RMul(g, t), pa), mask))
    IN  [ret |-> ret, delta |-> delta, adv |-> adv,
         prev_return |-> ret, prev_value |-> value, prev_advantage |-> adv]

\* lines 35-43: the value estimates are given, the buffers are allocated
\* uninitialised, the running scalars are seeded at 0
GAEAlloc ==
    /\ pc = "gae_start"
    /\ returns' = [k \in 1..nActions |-> Unset]
    /\ deltas' = [k \in 1..nActions |-> Unset]
    /\ advantages' = [k \in 1..nActions |-> Unset]
    /\ written' = {}
    /\ prev_return' = Zero
    /\ prev_value' = Zero
    /\ prev_advantage' = Zero
    /\ gae_i' = Len(rewards)
    /\ pc' = "gae_loop"
    /\ UNCHANGED <<caller, values, rewards, masks, nActions, gamma, tau,
                   cgVars, lsVars, trpoVars>>

\* the indexing of lines 45-47 is in range at index i
GaeInRange(i) == i <= nActions /\ i <= Len(masks) /\ i <= Len(values)

\* lines 44-51: one iteration, all indices in range
GAEStep ==
    /\ pc = "gae_loop"
    /\ gae_i >= 1
    /\ GaeInRange(gae_i)
    /\ LET s == GaeStep(prev_return, prev_value, prev_advantage,
                        rewards[gae_i], values[gae_i], masks[gae_i], gamma, tau)
       IN  /\ returns' = [returns EXCEPT ![gae_i] = s.ret]
           /\ deltas' = [deltas EXCEPT ![gae_i] = s.delta]
           /\ advantages' = [advantages EXCEPT ![gae_i] = s.adv]
           /\ prev_return' = s.prev_return
           /\ prev_value' = s.prev_value
           /\ prev_advantage' = s.prev_advantage
    /\ written' = written \cup {gae_i}
    /\ gae_i' = gae_i - 1
    /\ UNCHANGED <<pc, caller, values, rewards, masks, nActions, gamma, tau,
                   cgVars, lsVars, trpoVars>>

\* lines 45-46: an index past the end of a buffer, the masks or the values
\* raises IndexError, which no caller catches
GAEIndexError ==
    /\ pc = "gae_loop"
    /\ gae_i >= 1
    /\ ~GaeInRange(gae_i)
    /\ pc' = "error"
    /\ UNCHANGED <<caller, gaeVars, cgVars, lsVars, trpoVars>>

\* line 52: the buffers are returned; a cell the loop never assigned holds
\* whatever the allocator left there
GAEReturn ==
    /\ pc = "gae_loop"
    /\ gae_i = 0
    /\ \E junk \in [(1..nActions) \ written -> Garbage \X Garbage] :
          /\ returns' = [k \in 1..nActions |->
                            IF k \in written THEN returns[k] ELSE junk[k][1]]
          /\ advantages' = [k \in 1..nActions |->
                            IF k \in written THEN advantages[k] ELSE junk[k][2]]
    /\ pc' = "gae_returned"
    /\ UNCHANGED <<caller, values, rewards, masks, nActions, gamma, tau, deltas,
                   written, gae_i, prev_return, prev_value, prev_advantage,
                   cgVars, lsVars, trpoVars>>

\* the (returns, advantages) of a whole call on fields of one length n, by the
\* recurrence of lines 41-52
RECURSIVE GaeFrom(_, _, _, _, _, _)
GaeFrom(vs, rs, ms, g, t, i) ==
    IF i > Len(rs) THEN [returns |-> <<>>, advantages |-> <<>>,
                         prev_return |-> Zero, prev_value |-> Zero,
                         prev_advantage |-> Zero]
    ELSE LET rest == GaeFrom(vs, rs, ms, g, t, i + 1)
             s    == GaeStep(rest.prev_return, rest.prev_value, rest.prev_advantage,
                             rs[i], vs[i], ms[i], g, t)
         IN  [returns |-> <<s.ret>> \o rest.returns,
              advantages |-> <<s.adv>> \o rest.advantages,
              prev_return |-> s.prev_return, prev_value |-> s.prev_value,
              prev_advantage |-> s.prev_advantage]
EstimateAdvantage(vs, rs, ms, g, t) == GaeFrom(vs, rs, ms, g, t, 1)

\* the other functions' variables while estimate_advantage runs alone
CgIdle ==
    /\ cg_H = <<>> /\ cg_b = <<>> /\ cg_N = 0 /\ cg_x = <<>> /\ cg_r = <<>>
    /\ cg_p = <<>> /\ cg_i = 0
LsIdle ==
    /\ model_params = <<>> /\ f = <<>> /\ grad_f = <<>> /\ ls_x = <<>>
    /\ ls_p = <<>> /\ alpha_0 = Zero /\ c = Zero /\ max = 0 /\ m = Zero
    /\ alpha = Zero /\ initial_loss = Zero /\ ls_j = 0 /\ evals = 0
    /\ candidate_params = <<>> /\ ls_result = <<>>
TrpoIdle ==
    /\ backtrack_coeff = Zero /\ trpo_advantages = <<>> /\ trpo_returns = <<>>
    /\ full_step = <<>> /\ old_params = <<>> /\ success = FALSE
    /\ new_params = <<>> /\ trpo_result = <<>>
GaeLocalsIdle ==
    /\ returns = <<>> /\ deltas = <<>> /\ advantages = <<>> /\ written = {}
    /\ gae_i = 0 /\ prev_return = Zero /\ prev_value = Zero
    /\ prev_advantage = Zero
GaeIdle ==
    /\ values = <<>> /\ rewards = <<>> /\ masks = <<>> /\ nActions = 0
    /\ gamma = Zero /\ tau = Zero
    /\ GaeLocalsIdle

\* a call of estimate_advantage: any fields of lengths 1..MaxT
InitGAE ==
    /\ pc = "gae_start"
    /\ caller = "estimate_advantage"
    /\ values \in SeqsOf(Bits, 1..MaxT)
    /\ rewards \in SeqsOf(Bits, 1..MaxT)
    /\ masks \in SeqsOf(Bits, 1..MaxT)
    /\ nActions \in 1..MaxT
    /\ gamma \in Gammas
    /\ tau \in Taus
    /\ GaeLocalsIdle
    /\ CgIdle /\ LsIdle /\ TrpoIdle

NextGAE == GAEAlloc \/ GAEStep \/ GAEIndexError \/ GAEReturn
SpecGAE == InitGAE /\ [][NextGAE]_vars

\* the four trajectory fields have one length T
SameLength ==
    /\ Len(values) = Len(rewards)
    /\ Len(masks) = Len(rewards)
    /\ nActions = Len(rewards)
AllEqual(v, a) == \A k \in 1..Len(v) : v[k] = a

\* C7: when mask[i] = 0, the returns and advantages of the steps up to i are
\* those of the estimator run on the trajectory cut after step i: nothing
\* computed at a later step reaches them, whatever gamma and tau are.
C7_MaskCutsRecurrence ==
    pc = "gae_returned" =>
        \A i \in 1..Len(rewards) :
            masks[i] = Zero =>
                LET cut == EstimateAdvantage(SubSeq(values, 1, i), SubSeq(rewards, 1, i),
                                             SubSeq(masks, 1, i), gamma, tau)
                IN  \A j \in 1..i : /\ returns[j] = cut.returns[j]
                                    /\ advantages[j] = cut.advantages[j]

\* an estimator call has returned on a trajectory with an episode boundary
\* that is followed by a step with a non-zero reward and value estimate
C7_Witness ==
    /\ pc = "gae_returned"
    /\ \E i \in 1..(Len(rewards) - 1) :
          /\ masks[i] = Zero
          /\ rewards[i + 1] = One
          /\ values[i + 1] = One
          /\ {i, i + 1} \subseteq written

\* C8 as stated: all-zero rewards and all-one masks give all-zero returns and
\* all-zero advantages, whatever the value estimates are.
C8_ZeroRewardsZeroOutputs ==
    (pc = "gae_returned" /\ SameLength /\ AllEqual(rewards, Zero) /\ AllEqual(masks, One))
        => (AllEqual(returns, Zero) /\ AllEqual(advantages, Zero))

\* C8 amended: all-zero rewards and all-one masks give all-zero returns for
\* every gamma, tau and value estimates; the advantages are all zero exactly
\* when the value estimates are all zero too.
C8_ZeroRewardsAmended ==
    (pc = "gae_returned" /\ SameLength /\ AllEqual(rewards, Zero) /\ AllEqual(masks, One))
        => /\ AllEqual(returns, Zero)
           /\ AllEqual(advantages, Zero) <=> AllEqual(values, Zero)

\* a call has returned on a two-step all-zero-reward, all-one-mask trajectory
\* whose value estimates are not all zero
C8_Witness ==
    /\ pc = "gae_returned" /\ SameLength
    /\ Len(rewards) >= 2
    /\ AllEqual(rewards, Zero) /\ AllEqual(masks, One)
    /\ ~AllEqual(values, Zero)
    /\ ~AllEqual(advantages, Zero)

\* C9: a call whose fields do not all have one length fails with an error and
\* returns nothing, and no call returns a buffer with a position the
\* recurrence did not write.
C9_MismatchFailsFast ==
    /\ ~SameLength => pc # "gae_returned"
    /\ pc = "gae_returned" => written = 1..nActions

(***************************************************************************)
(* conjugate_gradient                                                      *)
(***************************************************************************)
\* the callable Hv of an explicit matrix (a sequence of rows): v |-> H v
MatVec(H, v) == [k \in 1..Len(H) |-> Dot(H[k], v)]
ZerosLike(v) == [k \in 1..Len(v) |-> Zero]
IntVec(a, b) == <<Rat(a, 1), Rat(b, 1)>>

\* symmetric positive-definite operators and targets of dimension 2
SpdMatrices ==
    { <<IntVec(1, 0), IntVec(0, 1)>>, <<IntVec(2, 0), IntVec(0, 1)>>,
      <<IntVec(2, 1), IntVec(1, 2)>>, <<IntVec(4, 1), IntVec(1, 3)>> }
Targets == {IntVec(a, b) : a \in -1..1, b \in -1..1}

\* line 68: torch.norm(v) < threshold, with threshold = 1e-10 (line 59).
\* norm(v) < 1e-10 is dot(v,v) < 1e-20; a non-zero rational n/d whose n and d
\* fit the model's integers has n/d >= 1/d > 1e-20, so the test is dot(v,v) = 0.
\* It is false for a NaN or infinite norm.
BelowThreshold(v) == LET q == Dot(v, v) IN q[2] # 0 /\ q[1] = 0

\* lines 59-62
CGInit ==
    /\ pc = "cg_start"
    /\ cg_x' = ZerosLike(cg_b)
    /\ cg_r' = VSub(cg_b, MatVec(cg_H, ZerosLike(cg_b)))
    /\ cg_p' = cg_r'
    /\ cg_i' = 0
    /\ pc' = "cg_loop"
    /\ UNCHANGED <<caller, cg_H, cg_b, cg_N, gaeVars, lsVars, trpoVars>>

\* lines 64-67 of one iteration: alpha, the updated x and r_next
CgAlpha  == RDiv(Dot(cg_r, cg_r), Dot(cg_p, MatVec(cg_H, cg_p)))
CgXNext  == VAdd(cg_x, VScale(CgAlpha, cg_p))
CgRNext  == VSub(cg_r, VScale(CgAlpha, MatVec(cg_H, cg_p)))

\* lines 63-69: an iteration that ends the loop at the threshold test, which
\* reads the residual r from before the update
CGIterBreak ==
    /\ pc = "cg_loop"
    /\ cg_i < cg_N
    /\ BelowThreshold(cg_r)
    /\ cg_x' = CgXNext
    /\ pc' = "cg_done"
    /\ UNCHANGED <<caller, cg_H, cg_b, cg_N, cg_r, cg_p, cg_i, gaeVars, lsVars, trpoVars>>

\* lines 63-72: an iteration that goes on to the next direction
CGIterContinue ==
    /\ pc = "cg_loop"
    /\ cg_i < cg_N
    /\ ~BelowThreshold(cg_r)
    /\ cg_x' = CgXNext
    /\ LET beta == RDiv(Dot(CgRNext, CgRNext), Dot(cg_r, cg_r))
       IN  cg_p' = VAdd(CgRNext, VScale(beta, cg_p))
    /\ cg_r' = CgRNext
    /\ cg_i' = cg_i + 1
    /\ UNCHANGED <<pc, caller, cg_H, cg_b, cg_N, gaeVars, lsVars, trpoVars>>

\* lines 63, 73: the range is exhausted, x is returned
CGExhaust ==
    /\ pc = "cg_loop"
    /\ cg_i = cg_N
    /\ pc' = "cg_done"
    /\ UNCHANGED <<caller, cgVars, gaeVars, lsVars, trpoVars>>

\* a call of conjugate_gradient on a symmetric positive-definite operator
InitCG ==
    /\ pc = "cg_start"
    /\ caller = "conjugate_gradient"
    /\ cg_H \in SpdMatrices
    /\ cg_b \in Targets
    /\ cg_N \in 1..MaxIter
    /\ cg_x = <<>> /\ cg_r = <<>> /\ cg_p = <<>> /\ cg_i = 0
    /\ GaeIdle /\ LsIdle /\ TrpoIdle

NextCG == CGInit \/ CGIterBreak \/ CGIterContinue \/ CGExhaust
SpecCG == InitCG /\ [][NextCG]_vars

\* C2: with a symmetric positive-definite H of dimension n and a cap N >= n,
\* the returned x solves H x = b, also when N exceeds the number of
\* iterations the residual needs to reach zero.
C2_ExactSolution ==
    (pc = "cg_done" /\ cg_N >= Len(cg_b)) => MatVec(cg_H, cg_x) = cg_b

(***************************************************************************)
(* backtrack_line_search                                                   *)
(***************************************************************************)
\* The loss callable f reads the parameters the model holds.  It is any
\* function of them: f is kept as the map of the points evaluated so far, a
\* point met again gives the same loss, a new point any loss of LossValues.
LossValues == {Zero, Rat(19, 20), One}
Evaluated(loss, at, v) == IF at \in DOMAIN loss THEN v = loss[at] ELSE v \in LossValues
Record(loss, at, v) == (at :> v) @@ loss

\* get_model_params(model) and set_flat_params_to(model, v) of torch_rl/utils:
\* the flat parameter vector of the model is read as a value (a copy that later
\* writes do not change) and is overwritten by v
GetModelParams == model_params
SetFlatParamsTo(v) == model_params' = v

\* line 90
Candidate(x, a, p) == VAdd(x, VScale(a, p))

\* the acceptance test without the test of a positive improvement
Accepts_RatioOnly(init, curr, mm, a, cc) ==
    RGt(RDiv(RSub(init, curr), RMul(mm, a)), cc)

\* line 97, with ratio and loss_diff of lines 93-95
Accepts(init, curr, mm, a, cc) ==
    LET loss_diff     == RSub(init, curr)
        expected_diff == RMul(mm, a)
        ratio         == RDiv(loss_diff, expected_diff)
    IN  RGt(ratio, cc) /\ RGt(loss_diff, Zero)

\* the next scale multiplies the scale by the initial scale
Shrink_ByCoeff(a) == RMul(a, alpha_0)

\* line 100
Shrink(a) == RMul(a, a)

\* the fallback returns the start point
Fallback_Start(x, p) == x

\* line 101
Fallback(x, p) == VAdd(x, p)

\* the baseline is taken after the first candidate is written to the model
LSStart_WritesFirst ==
    /\ pc = "ls_start"
    /\ m' = Dot(grad_f, ls_p)
    /\ alpha' = alpha_0
    /\ SetFlatParamsTo(Candidate(ls_x, alpha_0, ls_p))
    /\ \E v \in LossValues :
          /\ Evaluated(f, model_params', v)
          /\ initial_loss' = v
          /\ f' = Record(f, model_params', v)
    /\ ls_j' = 0
    /\ evals' = 0
    /\ pc' = "ls_loop"
    /\ UNCHANGED <<caller, grad_f, ls_x, ls_p, alpha_0, c, max,
                   candidate_params, ls_result, gaeVars, cgVars, trpoVars>>

\* lines 86-88: m, the first scale and the baseline loss, which f evaluates at
\* the parameters the model holds
LSStart ==
    /\ pc = "ls_start"
    /\ m' = Dot(grad_f, ls_p)
    /\ alpha' = alpha_0
    /\ \E v \in LossValues :
          /\ Evaluated(f, model_params, v)
          /\ initial_loss' = v
          /\ f' = Record(f, model_params, v)
    /\ ls_j' = 0
    /\ evals' = 0
    /\ pc' = "ls_loop"
    /\ UNCHANGED <<caller, model_params, grad_f, ls_x, ls_p, alpha_0, c, max,
                   candidate_params, ls_result, gaeVars, cgVars, trpoVars>>

\* lines 89-99: an attempt whose candidate is accepted
LSAccept ==
    /\ pc = "ls_loop"
    /\ ls_j < max
    /\ candidate_params' = Candidate(ls_x, alpha, ls_p)
    /\ SetFlatParamsTo(candidate_params')
    /\ \E v \in LossValues :
          /\ Evaluated(f, candidate_params', v)
          /\ f' = Record(f, candidate_params', v)
          /\ Accepts(initial_loss, v, m, alpha, c)
    /\ evals' = evals + 1
    /\ ls_result' = <<TRUE, candidate_params'>>
    /\ pc' = "ls_returned"
    /\ UNCHANGED <<caller, grad_f, ls_x, ls_p, alpha_0, c, max, m, alpha,
                   initial_loss, ls_j, gaeVars, cgVars, trpoVars>>

\* lines 89-97, 100: an attempt whose candidate is rejected
LSReject ==
    /\ pc = "ls_loop"
    /\ ls_j < max
    /\ candidate_params' = Candidate(ls_x, alpha, ls_p)
    /\ SetFlatParamsTo(candidate_params')
    /\ \E v \in LossValues :
          /\ Evaluated(f, candidate_params', v)
          /\ f' = Record(f, candidate_params', v)
          /\ ~Accepts(initial_loss, v, m, alpha, c)
    /\ evals' = evals + 1
    /\ alpha' = Shrink(alpha)
    /\ ls_j' = ls_j + 1
    /\ UNCHANGED <<pc, caller, grad_f, ls_x, ls_p, alpha_0, c, max, m,
                   initial_loss, ls_result, gaeVars, cgVars, trpoVars>>

\* lines 89, 101: no attempt is left
LSExhaust ==
    /\ pc = "ls_loop"
    /\ ls_j = max
    /\ ls_result' = <<FALSE, Fallback(ls_x, ls_p)>>
    /\ pc' = "ls_returned"
    /\ UNCHANGED <<caller, model_params, f, grad_f, ls_x, ls_p, alpha_0, c, max,
                   m, alpha, initial_loss, ls_j, evals, candidate_params,
                   gaeVars, cgVars, trpoVars>>

Points     == {IntVec(0, 0), IntVec(1, -1)}
Directions == {IntVec(0, 0), IntVec(1, 0), IntVec(-1, 2)}
Gradients  == {IntVec(1, 0), IntVec(-1, 1), IntVec(0, 1)}
Scales     == {Rat(1, 2), Rat(2, 3)}     \* initial scales, in (0,1)
Controls   == {Rat(1, 10), One}

\* a call of backtrack_line_search; x is the parameter vector the model holds,
\* as at the call of line 176
InitLS ==
    /\ pc = "ls_start"
    /\ caller = "backtrack_line_search"
    /\ ls_x \in Points
    /\ model_params = ls_x
    /\ ls_p \in Directions
    /\ grad_f \in Gradients
    /\ alpha_0 \in Scales
    /\ c \in Controls
    /\ max \in 1..MaxAttempts
    /\ f = <<>> /\ m = Zero /\ alpha = Zero /\ initial_loss = Zero
    /\ ls_j = 0 /\ evals = 0 /\ candidate_params = <<>> /\ ls_result = <<>>
    /\ GaeIdle /\ CgIdle /\ TrpoIdle

NextLS == LSStart \/ LSAccept \/ LSReject \/ LSExhaust
SpecLS == InitLS /\ [][NextLS]_vars

RECURSIVE RPow(_, _)
RPow(a, n) == IF n = 0 THEN One ELSE RMul(a, RPow(a, n - 1))
\* the scale of attempt k (0-based) when every attempt before it was rejected
ScaleOf(k) == RPow(alpha_0, 2 ^ k)

\* C3 as stated: when no candidate is accepted the call returns
\* (False, x0 + direction) after exactly max candidate evaluations, and that
\* vector is never x0 and never the last candidate tried.
C3_ExhaustionFullStep ==
    (pc = "ls_returned" /\ ls_result[1] = FALSE) =>
        /\ ls_result[2] = VAdd(ls_x, ls_p)
        /\ evals = max
        /\ ls_result[2] # ls_x
        /\ ls_result[2] # candidate_params

\* C3 amended: when no candidate is accepted, which is the case whenever no
\* candidate's loss is below the baseline, the call returns
\* (False, x0 + direction) after exactly max candidate evaluations; for a
\* non-zero direction that vector is neither x0 nor the last candidate tried
\* (for a zero direction x0 + direction is x0).
C3_ExhaustionAmended ==
    /\ (pc = "ls_returned" /\ ls_result[1] = FALSE) =>
          /\ ls_result[2] = VAdd(ls_x, ls_p)
          /\ evals = max
          /\ ~IsZeroVec(ls_p) => /\ ls_result[2] # ls_x
                                  /\ ls_result[2] # candidate_params
    /\ (pc = "ls_returned" /\ \A pt \in DOMAIN f : ~RLt(f[pt], initial_loss)) =>
          ls_result[1] = FALSE

\* every attempt of a call with several attempts and a non-zero direction was
\* rejected, none of the candidates improving on the baseline
C3_Witness ==
    /\ pc = "ls_returned" /\ ls_result[1] = FALSE
    /\ max >= 2 /\ evals = max
    /\ ~IsZeroVec(ls_p)
    /\ \A pt \in DOMAIN f : ~RLt(f[pt], initial_loss)

\* the acceptance condition of the claim for the candidate of scale s
C4_Passes(s) ==
    LET cand == VAdd(ls_x, VScale(s, ls_p))
        gain == RSub(f[ls_x], f[cand])
    IN  /\ RGt(RDiv(gain, RMul(Dot(grad_f, ls_p), s)), c)
        /\ RGt(gain, Zero)

\* C4: success=True is returned only for the first scale, in the order
\* initial_scale and then each shrink of it, whose candidate passes both
\* tests; the parameters returned are that candidate, and their loss is
\* strictly below the baseline loss at x0.
C4_AcceptsFirstPassing ==
    (pc = "ls_returned" /\ ls_result[1] = TRUE) =>
        /\ ls_result[2] = VAdd(ls_x, VScale(ScaleOf(ls_j), ls_p))
        /\ C4_Passes(ScaleOf(ls_j))
        /\ \A k \in 0..(ls_j - 1) : ~C4_Passes(ScaleOf(k))
        /\ RLt(f[ls_result[2]], f[ls_x])
        /\ model_params = ls_result[2]

\* a candidate was accepted after an earlier one, which improved on the
\* baseline too little, was rejected
C4_Witness ==
    /\ pc = "ls_returned" /\ ls_result[1] = TRUE
    /\ ls_j >= 1
    /\ RLt(f[VAdd(ls_x, VScale(alpha_0, ls_p))], initial_loss)

(***************************************************************************)
(* trpo_update                                                             *)
(***************************************************************************)
\* line 144: (a - a.mean()) / a.std(), std being the unbiased estimate.  The
\* quotient by the square root is kept as the pair of the centred sequence
\* and the variance whose root divides it (NaN for a single step, 0/0).
Normalize(a) ==
    LET n        == Len(a)
        mean     == RDiv(Sum(a), Rat(n, 1))
        centered == [k \in 1..n |-> RSub(a[k], mean)]
        variance == RDiv(Sum([k \in 1..n |-> RMul(centered[k], centered[k])]),
                         Rat(n - 1, 1))
    IN  [centered |-> centered, variance |-> variance]

\* default arguments of backtrack_line_search (line 76): c = 0.1, and max,
\* which is 10 in the source and is capped here at the model's bound, since
\* ten squarings of a scale fall outside the model's integers
DefaultControl == Rat(1, 10)
DefaultMax == MaxAttempts

\* lines 143-146: the pair estimate_advantage returns, (returns, advantages)
\* of line 52, is unpacked as "advantages, returns"; the local advantages is
\* then normalized
TrpoNormalize ==
    /\ pc = "gae_returned"
    /\ caller = "trpo_update"
    /\ trpo_advantages' = Normalize(returns)
    /\ trpo_returns' = advantages
    /\ pc' = "trpo_direction"
    /\ UNCHANGED <<caller, gaeVars, cgVars, lsVars, backtrack_coeff, full_step,
                   old_params, success, new_params, trpo_result>>

\* lines 148-181: the surrogate loss closure loss_fn, its gradient g_vect, the
\* direction and the step size come from the differentiation engine over the
\* policy network, which is outside this file: g_vect and full_step are any
\* vectors.  old_params is read from the policy and the line search is called
\* with (policy, loss_fn, -g_vect, old_params, full_step, backtrack_coeff).
TrpoLineSearchCall ==
    /\ pc = "trpo_direction"
    /\ \E g_vect \in Gradients, step \in Directions :
          /\ full_step' = step
          /\ grad_f' = VNeg(g_vect)
          /\ ls_p' = step
    /\ old_params' = GetModelParams
    /\ ls_x' = old_params'
    /\ alpha_0' = backtrack_coeff
    /\ c' = DefaultControl
    /\ max' = DefaultMax
    /\ pc' = "ls_start"
    /\ UNCHANGED <<caller, gaeVars, cgVars, model_params, f, m, alpha, initial_loss,
                   ls_j, evals, candidate_params, ls_result, backtrack_coeff,
                   trpo_advantages, trpo_returns, success, new_params, trpo_result>>

\* the new parameters are committed only when the line search succeeded
TrpoCommit_OnlyOnSuccess ==
    /\ pc = "ls_returned"
    /\ caller = "trpo_update"
    /\ success' = ls_result[1]
    /\ new_params' = ls_result[2]
    /\ SetFlatParamsTo(IF ls_result[1] THEN ls_result[2] ELSE old_params)
    /\ trpo_result' = trpo_returns
    /\ pc' = "trpo_done"
    /\ UNCHANGED <<caller, gaeVars, cgVars, f, grad_f, ls_x, ls_p, alpha_0, c, max, m,
                   alpha, initial_loss, ls_j, evals, candidate_params, ls_result,
                   backtrack_coeff, trpo_advantages, trpo_returns, full_step,
                   old_params>>

\* lines 176-185: the pair the line search returned is unpacked, new_params
\* is written into the policy, the local returns is returned
TrpoCommit ==
    /\ pc = "ls_returned"
    /\ caller = "trpo_update"
    /\ success' = ls_result[1]
    /\ new_params' = ls_result[2]
    /\ SetFlatParamsTo(new_params')
    /\ trpo_result' = trpo_returns
    /\ pc' = "trpo_done"
    /\ UNCHANGED <<caller, gaeVars, cgVars, f, grad_f, ls_x, ls_p, alpha_0, c, max, m,
                   alpha, initial_loss, ls_j, evals, candidate_params, ls_result,
                   backtrack_coeff, trpo_advantages, trpo_returns, full_step,
                   old_params>>

\* the trajectories of the trpo_update calls: T steps of reward 1, any value
\* estimates, one episode that ends at the last step
OnesThenZero(T) == [k \in 1..T |-> IF k = T THEN Zero ELSE One]

\* a call of trpo_update, at its call of estimate_advantage (line 143), on a
\* trajectory whose fields have one length
InitTRPO ==
    /\ pc = "gae_start"
    /\ caller = "trpo_update"
    /\ \E T \in 1..MaxT :
          /\ values \in [1..T -> Bits]
          /\ rewards = [k \in 1..T |-> One]
          /\ masks = OnesThenZero(T)
          /\ nActions = T
    /\ gamma \in Gammas
    /\ tau = Rat(1, 2)
    /\ GaeLocalsIdle
    /\ CgIdle
    /\ model_params \in Points
    /\ backtrack_coeff \in Scales
    /\ f = <<>> /\ grad_f = <<>> /\ ls_x = <<>> /\ ls_p = <<>>
    /\ alpha_0 = Zero /\ c = Zero /\ max = 0 /\ m = Zero /\ alpha = Zero
    /\ initial_loss = Zero /\ ls_j = 0 /\ evals = 0
    /\ candidate_params = <<>> /\ ls_result = <<>>
    /\ trpo_advantages = <<>> /\ trpo_returns = <<>> /\ full_step = <<>>
    /\ old_params = <<>> /\ success = FALSE /\ new_params = <<>>
    /\ trpo_result = <<>>

NextTRPO ==
    \/ GAEAlloc \/ GAEStep \/ GAEReturn
    \/ TrpoNormalize \/ TrpoLineSearchCall
    \/ LSStart \/ LSAccept \/ LSReject \/ LSExhaust
    \/ TrpoCommit
SpecTRPO == InitTRPO /\ [][NextTRPO]_vars

\* C1: trpo_update normalizes, and weighs the surrogate loss by, the GAE
\* advantage sequence of estimate_advantage, and returns to its caller the
\* return sequence of estimate_advantage.
C1_OutputsInStatedRoles ==
    pc = "trpo_done" =>
        /\ trpo_advantages = Normalize(advantages)
        /\ trpo_result = returns

\* C5: every trpo_update ends with the policy holding the vector the line
\* search returned, after a success and after an exhaustion alike; after an
\* exhaustion that is old_params + full_step, which differs from the
\* parameters before the update when full_step is not zero.
C5_AlwaysCommits ==
    pc = "trpo_done" =>
        /\ model_params = ls_result[2]
        /\ ls_result[1] = FALSE =>
              /\ model_params = VAdd(old_params, full_step)
              /\ ~IsZeroVec(full_step) => model_params # old_params

\* an update has ended after a line search that rejected every candidate of
\* a non-zero step
C5_Witness ==
    /\ pc = "trpo_done"
    /\ success = FALSE
    /\ ~IsZeroVec(full_step)
    /\ evals = max
    /\ model_params # old_params

\* C6 as stated: within a trpo_update only the final commit step changes the
\* parameters the policy holds.
C6_OnlyCommitWrites ==
    [][(caller = "trpo_update" /\ model_params' # model_params) => pc' = "trpo_done"]_vars

\* C6 amended: within a trpo_update the parameters the policy holds are
\* changed only by the attempts of the line search, each of which writes its
\* candidate into the policy, and by the final commit step; no stage before
\* the line search's first attempt changes them.
C6_OnlySearchAndCommitWrite ==
    [][(caller = "trpo_update" /\ model_params' # model_params)
          => (pc = "ls_loop" \/ pc = "ls_returned")]_vars

\* before the commit, the policy holds a candidate the line search rejected
C6_Witness ==
    /\ caller = "trpo_update"
    /\ pc = "ls_loop"
    /\ ls_j >= 1
    /\ model_params = candidate_params
    /\ model_params # old_params

====
